---- MODULE Spec2Model ----
(***************************************************************************)
(* Blockchain Investigator (Tal-Elzam/blockchain-ls).                      *)
(*                                                                         *)
(* A model of the front end's graph accumulation (src/app/page.tsx and the *)
(* address details panel), of the graph builder (src/lib/api/blockchain.ts)*)
(* and of the service layer: mergeGraphData, isValidBitcoinAddress and     *)
(* BlockchainService (lib/services/blockchain-service, whose text is in    *)
(* src/lib/services/__tests__/blockchain-service.test.ts) in front of the  *)
(* backend client (src/lib/api/backend-client.ts).                         *)
(*                                                                         *)
(* Three specifications share the module:                                  *)
(*   Spec         the page: search, expand graph, node selection, load     *)
(*                more, with every pending fetch as a task that holds the  *)
(*                values its closure captured;                             *)
(*   SpecMerge    mergeGraphData applied to bounded pairs of graphs;       *)
(*   SpecService  BlockchainService.getAddressDetails / getAddressGraph    *)
(*                applied to bounded address strings.                      *)
(* The variables a specification does not use stay at their parked values. *)
(***************************************************************************)
EXTENDS Naturals, Sequences, FiniteSets, Bags, TLC

VARIABLES
    \* ---- SpecMerge: one evaluation of mergeGraphData
    mpc,        \* "off" | "drawn" | "merged" | "again" | "swapped"
    mA, mB,     \* the two input graphs
    mAB,        \* mergeGraphData(mA, mB)
    mABB,       \* mergeGraphData(mAB, mB)
    mBA,        \* mergeGraphData(mB, mA)
    \* ---- SpecService: one call of BlockchainService
    spc,        \* "off" | "called" | "fetching" | "done"
    sCall,      \* "details" | "graph": the method called
    sAddr,      \* its address argument, a sequence of characters
    sResult,    \* "none" | "data" | "invalid" | "taproot" | "toolong" | "failed"
    sResponse,  \* what fetch() ended in, of kind "none" before
    sError,     \* the parts of the message of the Error the call threw after a fetch
    httpRequests,   \* the number of fetch() calls issued
    apiLog,     \* backend-client's apiLog, newest entry first
    \* ---- Spec: the page (Home) and its AddressDetailsPanel
    inputValue,     \* the text of the search box
    address,        \* the central address, "" before the first search
    graphData,      \* the accumulated graph
    selectedNode,   \* the selected node, NoNode for null
    loading,        \* a search is pending
    error,          \* the page's error message, "none" for null
    expandCount,    \* expansions since the last search
    expandLoading,  \* an expansion is pending
    panel,          \* the panel's addressData, loading, error and offset
    tasks,          \* the pending fetches with what their closures captured
    nfetch,         \* fetches issued so far
    \* ---- SpecLog: the API log and a caller of getApiLog
    snapIs,     \* "none" | "copy" | "store": the array the caller's reference denotes
    snapshot,   \* the array getApiLog created, when the caller holds one
    inserted,   \* history: the entries logged since the last clear, oldest first
    \* ---- SpecBuilder: one page through convertTransactionsToGraph and mergeGraphData
    bpc,        \* "off" | "drawn" | "built" | "merged"
    bAddr,      \* the centre address
    bTxs,       \* the page of transactions
    bGraph,     \* convertTransactionsToGraph(bAddr, bTxs)
    bAsExisting,    \* mergeGraphData(bGraph, EmptyGraph), once stored
    bAsIncoming,    \* mergeGraphData(EmptyGraph, bGraph), once stored
    bOther,         \* another graph, once bGraph is merged with it
    bMerged,        \* mergeGraphData of bGraph and bOther, in one order or the other
    \* ---- SpecFetcher: the rate-governed fetcher in front of the external API
    fnow,       \* the clock, in ticks of 15 seconds
    fcfg,       \* the configuration
    fLock,      \* the caller that holds the scheduler, or 0
    fcall,      \* by caller: the state of its call
    fSent       \* the outbound requests of the trailing window: time, caller, request

mergeVars == <<mpc, mA, mB, mAB, mABB, mBA>>
svcVars == <<spc, sCall, sAddr, sResult, sResponse, sError, httpRequests, apiLog>>
pageVars == <<inputValue, address, graphData, selectedNode, loading, error,
              expandCount, expandLoading, panel, tasks, nfetch>>
logVars == <<snapIs, snapshot, inserted>>
builderVars == <<bpc, bAddr, bTxs, bGraph, bAsExisting, bAsIncoming, bOther, bMerged>>
fetcherVars == <<fnow, fcfg, fLock, fcall, fSent>>
restVars == <<logVars, builderVars, fetcherVars>>

-----------------------------------------------------------------------------
(* Sequences and JavaScript Maps                                           *)

Range(s) == {s[i] : i \in 1..Len(s)}

\* The sequences over S of length at most n.
SeqUpTo(S, n) == UNION {[1..k -> S] : k \in 0..n}

\* A JavaScript Map, as the sequence of its entries in insertion order.
MapHas(m, k) == \E i \in 1..Len(m) : m[i].k = k

\* Map.set: a new key is appended, an existing key keeps its place and takes
\* the new value.
MapSet(m, k, v) ==
    IF MapHas(m, k)
    THEN [i \in 1..Len(m) |-> IF m[i].k = k THEN [k |-> k, v |-> v] ELSE m[i]]
    ELSE Append(m, [k |-> k, v |-> v])

\* Array.from(map.values())
MapValues(m) == [i \in 1..Len(m) |-> m[i].v]

-----------------------------------------------------------------------------
(* GraphData: nodes and links are arrays                                   *)

EmptyGraph == [nodes |-> <<>>, links |-> <<>>]

\* `${link.source}-${link.target}-${link.txHash}`
LinkKey(link) == link.source \o "-" \o link.target \o "-" \o link.txHash

\* The identity of an edge in the data model: (source, target, txHash).
EdgeId(link) == <<link.source, link.target, link.txHash>>

NodeIds(g) == {g.nodes[i].id : i \in 1..Len(g.nodes)}
EdgeIds(g) == {EdgeId(g.links[i]) : i \in 1..Len(g.links)}

\* nodes.forEach(node => nodeMap.set(node.id, node)), and the guarded form
\* if (!nodeMap.has(node.id)) nodeMap.set(node.id, node)
RECURSIVE PutNodes(_, _, _)
PutNodes(m, ns, onlyIfAbsent) ==
    IF ns = <<>> THEN m
    ELSE LET n == Head(ns)
             m1 == IF onlyIfAbsent /\ MapHas(m, n.id) THEN m ELSE MapSet(m, n.id, n)
         IN  PutNodes(m1, Tail(ns), onlyIfAbsent)

RECURSIVE PutLinks(_, _, _)
PutLinks(m, ls, onlyIfAbsent) ==
    IF ls = <<>> THEN m
    ELSE LET l == Head(ls)
             key == LinkKey(l)
             m1 == IF onlyIfAbsent /\ MapHas(m, key) THEN m ELSE MapSet(m, key, l)
         IN  PutLinks(m1, Tail(ls), onlyIfAbsent)

\* Mutants of mergeGraphData.
\* An incoming node overwrites the stored node of the same id.
mergeGraphData_overwrite(existing, newData) ==
    [nodes |-> MapValues(PutNodes(PutNodes(<<>>, existing.nodes, FALSE), newData.nodes, FALSE)),
     links |-> MapValues(PutLinks(PutLinks(<<>>, existing.links, FALSE), newData.links, TRUE))]

\* The incoming links are appended without a look at their key.
mergeGraphData_concat(existing, newData) ==
    [nodes |-> MapValues(PutNodes(PutNodes(<<>>, existing.nodes, FALSE), newData.nodes, TRUE)),
     links |-> MapValues(PutLinks(<<>>, existing.links, FALSE)) \o newData.links]

\* The incoming links are left out.
mergeGraphData_droplinks(existing, newData) ==
    [nodes |-> MapValues(PutNodes(PutNodes(<<>>, existing.nodes, FALSE), newData.nodes, TRUE)),
     links |-> MapValues(PutLinks(<<>>, existing.links, FALSE))]

\* Mutant: the incoming nodes are left out.
mergeGraphData_dropnodes(existing, newData) ==
    [nodes |-> MapValues(PutNodes(<<>>, existing.nodes, FALSE)),
     links |-> MapValues(PutLinks(PutLinks(<<>>, existing.links, FALSE), newData.links, TRUE))]

mergeGraphData(existing, newData) ==
    LET nodeMap0 == PutNodes(<<>>, existing.nodes, FALSE)
        linkMap0 == PutLinks(<<>>, existing.links, FALSE)
        nodeMap  == PutNodes(nodeMap0, newData.nodes, TRUE)
        linkMap  == PutLinks(linkMap0, newData.links, TRUE)
    IN  [nodes |-> MapValues(nodeMap), links |-> MapValues(linkMap)]

-----------------------------------------------------------------------------
(* SpecMerge: mergeGraphData on bounded inputs                             *)

MaxNodes == 2
MaxLinks == 2

\* Node records: "a" comes with two labels, so two graphs can hold different
\* records under one id.
MergeNodes ==
    {[id |-> "a", label |-> "a1"], [id |-> "a", label |-> "a2"],
     [id |-> "b", label |-> "b1"]}

\* Link records: one key with two values, and a second transaction between
\* the same two addresses.
MergeLinks ==
    {[source |-> "a", target |-> "b", value |-> 100, txHash |-> "t1"],
     [source |-> "a", target |-> "b", value |-> 200, txHash |-> "t1"],
     [source |-> "a", target |-> "b", value |-> 100, txHash |-> "t2"]}

UniqueNodeIds(ns) == \A i, j \in 1..Len(ns) : ns[i].id = ns[j].id => i = j
UniqueEdgeIds(ls) == \A i, j \in 1..Len(ls) : EdgeId(ls[i]) = EdgeId(ls[j]) => i = j

\* The graphs the program hands around: the builder keeps its nodes in a Map,
\* so node ids are unique; it pushes one link per leg, so a key can repeat.
MergeGraphs ==
    {[nodes |-> ns, links |-> ls] :
        ns \in {s \in SeqUpTo(MergeNodes, MaxNodes) : UniqueNodeIds(s)},
        ls \in SeqUpTo(MergeLinks, MaxLinks)}

MergeParked ==
    /\ mpc = "off"
    /\ mA = EmptyGraph /\ mB = EmptyGraph
    /\ mAB = EmptyGraph /\ mABB = EmptyGraph /\ mBA = EmptyGraph

MergeInit ==
    /\ mpc = "drawn"
    /\ mA \in MergeGraphs /\ mB \in MergeGraphs
    /\ mAB = EmptyGraph /\ mABB = EmptyGraph /\ mBA = EmptyGraph

Merge ==
    /\ UNCHANGED <<svcVars, pageVars, restVars>>
    /\ /\ mpc = "drawn"
       /\ mAB' = mergeGraphData(mA, mB)
       /\ mpc' = "merged"
       /\ UNCHANGED <<mA, mB, mABB, mBA>>

MergeAgain ==
    /\ UNCHANGED <<svcVars, pageVars, restVars>>
    /\ /\ mpc = "merged"
       /\ mABB' = mergeGraphData(mAB, mB)
       /\ mpc' = "again"
       /\ UNCHANGED <<mA, mB, mAB, mBA>>

MergeSwapped ==
    /\ UNCHANGED <<svcVars, pageVars, restVars>>
    /\ /\ mpc = "again"
       /\ mBA' = mergeGraphData(mB, mA)
       /\ mpc' = "swapped"
       /\ UNCHANGED <<mA, mB, mAB, mABB>>


-----------------------------------------------------------------------------
(* Address strings and isValidBitcoinAddress                               *)

LowerLetters == <<"a", "b", "c", "d", "e", "f", "g", "h", "i", "j", "k", "l", "m",
                  "n", "o", "p", "q", "r", "s", "t", "u", "v", "w", "x", "y", "z">>
UpperLetters == <<"A", "B", "C", "D", "E", "F", "G", "H", "I", "J", "K", "L", "M",
                  "N", "O", "P", "Q", "R", "S", "T", "U", "V", "W", "X", "Y", "Z">>
Digits == {"0", "1", "2", "3", "4", "5", "6", "7", "8", "9"}

\* [a-km-zA-HJ-NP-Z1-9]
Base58Class == (Range(LowerLetters) \ {"l"}) \cup (Range(UpperLetters) \ {"I", "O"})
                 \cup (Digits \ {"0"})

\* [a-z0-9] under the i flag
AlnumClassI == Range(LowerLetters) \cup Range(UpperLetters) \cup Digits

ToLower(c) ==
    IF \E i \in 1..Len(UpperLetters) : UpperLetters[i] = c
    THEN LowerLetters[CHOOSE i \in 1..Len(UpperLetters) : UpperLetters[i] = c]
    ELSE c

\* String.prototype.startsWith, case-sensitive.
StartsWith(str, prefix) ==
    /\ Len(str) >= Len(prefix)
    /\ \A i \in 1..Len(prefix) : str[i] = prefix[i]

\* A literal prefix of a regular expression under the i flag.
StartsWithI(str, prefix) ==
    /\ Len(str) >= Len(prefix)
    /\ \A i \in 1..Len(prefix) : ToLower(str[i]) = prefix[i]

\* The characters of str after its first n are lo to hi characters of class.
RestInClass(str, n, class, lo, hi) ==
    /\ Len(str) - n >= lo /\ Len(str) - n <= hi
    /\ \A i \in (n + 1)..Len(str) : str[i] \in class

\* Mutant: /^[13][a-z0-9]{25,34}$/i
LegacyRegex_alnum(str) ==
    /\ Len(str) >= 1 /\ str[1] \in {"1", "3"}
    /\ RestInClass(str, 1, AlnumClassI, 25, 34)

\* /^[13][a-km-zA-HJ-NP-Z1-9]{25,34}$/
LegacyRegex(str) ==
    /\ Len(str) >= 1 /\ str[1] \in {"1", "3"}
    /\ RestInClass(str, 1, Base58Class, 25, 34)

\* /^bc1[a-z0-9]{39,59}$/i
Bech32Regex(str) ==
    /\ StartsWithI(str, <<"b", "c", "1">>)
    /\ RestInClass(str, 3, AlnumClassI, 39, 59)

\* /^bc1p[a-z0-9]{58}$/i
TaprootRegex(str) ==
    /\ StartsWithI(str, <<"b", "c", "1", "p">>)
    /\ RestInClass(str, 4, AlnumClassI, 58, 58)

\* Mutant: the length and character checks are gone, any string of 26 to 100
\* characters is accepted.
isValidBitcoinAddress_lengthonly(addr) ==
    ~(addr = <<>> \/ Len(addr) < 26 \/ Len(addr) > 100)

isValidBitcoinAddress(addr) ==
    IF addr = <<>> \/ Len(addr) < 26 \/ Len(addr) > 100 THEN FALSE
    ELSE IF LegacyRegex(addr) THEN TRUE
    ELSE IF Bech32Regex(addr) THEN TRUE
    ELSE IF TaprootRegex(addr) THEN TRUE
    ELSE FALSE


-----------------------------------------------------------------------------
(* The checks of BlockchainService in front of the backend client          *)

\* The error getAddressDetails throws before it fetches, "none" when it goes
\* on to fetchAddressDetails.
getAddressDetailsThrows(addr) ==
    IF ~isValidBitcoinAddress(addr) THEN "invalid"
    ELSE IF StartsWith(addr, <<"b", "c", "1", "p">>) THEN "taproot"
    ELSE IF Len(addr) > 90 THEN "toolong"
    ELSE "none"

\* Mutant: getAddressGraph hands every address to fetchAddressGraph.
getAddressGraphThrows_unchecked(addr) == "none"

\* The error getAddressGraph throws before it fetches, "none" when it goes on
\* to fetchAddressGraph.
getAddressGraphThrows(addr) ==
    IF ~isValidBitcoinAddress(addr) THEN "invalid" ELSE "none"

-----------------------------------------------------------------------------
(* SpecService: BlockchainService in front of the backend client           *)

MAX_LOG_ENTRIES == 100

\* The longest run of one character in a drawn address.
MaxBody == 100

Prefixes ==
    {<<>>, <<"1">>, <<"3">>, <<"2">>, <<"b", "c", "1">>, <<"B", "C", "1">>,
     <<"b", "c", "1", "p">>, <<"B", "C", "1", "P">>, <<"b", "c", "1", "P">>,
     <<"t", "b", "1">>}
FillChars == {"q", "Q", "7", "0", "l", "I"}
TailChars == {<<>>, <<"O">>, <<"-">>}

\* prefix, then n times the character c, then tail
MkAddress(prefix, c, n, tail) == prefix \o [i \in 1..n |-> c] \o tail

AddressStrings ==
    {MkAddress(p, c, n, t) : p \in Prefixes, c \in FillChars, n \in 0..MaxBody, t \in TailChars}

\* Mutant: only a response is logged, the catch branch logs nothing.
addApiLogEntry_responsesonly(log, entry) ==
    IF entry.kind = "response" THEN <<entry>> \o log ELSE log

\* Mutant: the entry is added and nothing is evicted.
addApiLogEntry_nopop(log, entry) == <<entry>> \o log

\* Mutant: at capacity the newest entry is the one dropped.
addApiLogEntry_dropnewest(log, entry) ==
    IF Len(log) >= MAX_LOG_ENTRIES THEN log ELSE <<entry>> \o log

\* apiLog.unshift(entry); if (apiLog.length > MAX_LOG_ENTRIES) apiLog.pop()
addApiLogEntry(log, entry) ==
    LET l1 == <<entry>> \o log
    IN  IF Len(l1) > MAX_LOG_ENTRIES THEN SubSeq(l1, 1, Len(l1) - 1) ELSE l1

\* `${BACKEND_URL}/api/address/${address}?limit=..&offset=..` and
\* `${BACKEND_URL}/api/address/${address}/graph?limit=..&offset=..`
Url(call, addr, limit, offset) ==
    [path |-> call, address |-> addr, limit |-> limit, offset |-> offset]

\* What fetch() can end in: a response with a status, a transport error, or
\* the abort of the timeout.
\* The body of a response that is not ok is no JSON, JSON without a detail,
\* or JSON with a detail string.
FetchOutcomes ==
    {[kind |-> "response", status |-> 200, json |-> TRUE, detail |-> ""]}
      \cup {[kind |-> "response", status |-> st, json |-> js, detail |-> dt] :
               st \in {404, 429, 500, 503}, js \in BOOLEAN, dt \in {"", "Rate limited"}}
      \cup {[kind |-> k, status |-> 0, json |-> FALSE, detail |-> ""] :
               k \in {"error", "timeout"}}

LogEntry(url, outcome) ==
    [method |-> "GET", url |-> url, kind |-> outcome.kind, status |-> outcome.status]

\* Response.ok
ResponseOk(status) == status >= 200 /\ status <= 299

\* Mutant: a transport error or a timeout is swallowed and data returned.
fetchAddressResult_swallow(outcome) ==
    IF outcome.kind = "response" /\ ~ResponseOk(outcome.status) THEN "failed" ELSE "data"

\* How fetchAddressDetails / fetchAddressGraph settle: they return the body of
\* an ok response, and throw on any other response and on what fetchWithTimeout
\* throws.
fetchAddressResult(outcome) ==
    IF outcome.kind = "response" /\ ResponseOk(outcome.status) THEN "data" ELSE "failed"

\* Mutant: the body of the response is not looked at.
fetchAddressError_nodetail(call, outcome) ==
    IF outcome.kind # "response" THEN <<outcome.kind>>
    ELSE IF ResponseOk(outcome.status) THEN <<>>
    ELSE <<"Failed to fetch: ", ToString(outcome.status)>>

\* The message of the Error a call throws after its fetch, in parts: what
\* fetch() threw; `Failed to fetch address details: ${response.status} ...`;
\* in fetchAddressGraph the detail of the body when the body is JSON and has
\* one, else `Failed to fetch graph data: ${response.status} ...`, and one more
\* sentence on a 503.
fetchAddressError(call, outcome) ==
    IF outcome.kind # "response" THEN <<outcome.kind>>
    ELSE IF ResponseOk(outcome.status) THEN <<>>
    ELSE IF call = "details"
    THEN <<"Failed to fetch address details: ", ToString(outcome.status)>>
    ELSE (IF outcome.json /\ outcome.detail # "" THEN <<outcome.detail>>
          ELSE <<"Failed to fetch graph data: ", ToString(outcome.status)>>)
           \o (IF outcome.status = 503
               THEN <<". The blockchain API may be temporarily unavailable or rate limited.">>
               ELSE <<>>)

\* A log entry of an earlier call.
EarlierEntry ==
    LogEntry(Url("graph", MkAddress(<<"1">>, "q", 33, <<>>), 50, 0),
             [kind |-> "response", status |-> 200])

ServiceParked ==
    /\ spc = "off" /\ sCall = "none" /\ sAddr = <<>> /\ sResult = "none"
    /\ sResponse = [kind |-> "none", status |-> 0, json |-> FALSE, detail |-> ""]
    /\ sError = <<>>
    /\ httpRequests = 0 /\ apiLog = <<>>

ServiceInit ==
    /\ spc = "called"
    /\ sCall \in {"details", "graph"}
    /\ sAddr \in AddressStrings
    /\ sResult = "none"
    /\ sResponse = [kind |-> "none", status |-> 0, json |-> FALSE, detail |-> ""]
    /\ sError = <<>>
    /\ httpRequests = 0
    /\ apiLog \in {<<>>, <<EarlierEntry>>}

\* BlockchainService.getAddressDetails up to the fetch() of fetchWithTimeout.
getAddressDetails ==
    /\ UNCHANGED <<mergeVars, pageVars, restVars>>
    /\ /\ spc = "called" /\ sCall = "details"
       /\ LET thrown == getAddressDetailsThrows(sAddr)
          IN  IF thrown # "none"
              THEN spc' = "done" /\ sResult' = thrown /\ UNCHANGED httpRequests
              ELSE spc' = "fetching" /\ httpRequests' = httpRequests + 1
                   /\ UNCHANGED sResult
       /\ UNCHANGED <<sCall, sAddr, sResponse, sError, apiLog>>

\* BlockchainService.getAddressGraph up to the fetch() of fetchWithTimeout.
getAddressGraph ==
    /\ UNCHANGED <<mergeVars, pageVars, restVars>>
    /\ /\ spc = "called" /\ sCall = "graph"
       /\ LET thrown == getAddressGraphThrows(sAddr)
          IN  IF thrown # "none"
              THEN spc' = "done" /\ sResult' = thrown /\ UNCHANGED httpRequests
              ELSE spc' = "fetching" /\ httpRequests' = httpRequests + 1
                   /\ UNCHANGED sResult
       /\ UNCHANGED <<sCall, sAddr, sResponse, sError, apiLog>>

\* fetch() settles: fetchWithTimeout logs the attempt, and fetchAddressDetails /
\* fetchAddressGraph return the body of an ok response and throw otherwise.
fetchWithTimeout ==
    /\ UNCHANGED <<mergeVars, pageVars, restVars>>
    /\ /\ spc = "fetching"
       /\ \E outcome \in FetchOutcomes :
             /\ apiLog' = addApiLogEntry(apiLog,
                             LogEntry(Url(sCall, sAddr, 50, 0), outcome))
             /\ sResult' = fetchAddressResult(outcome)
             /\ sResponse' = outcome
             /\ sError' = fetchAddressError(sCall, outcome)
       /\ spc' = "done"
       /\ UNCHANGED <<sCall, sAddr, httpRequests>>

-----------------------------------------------------------------------------
(* SpecFetcher: the rate limiter of the backend (app/services/             *)
(* rate_limiter.py), which every call of the external API goes through.    *)
(* Time is counted in ticks of 15 seconds.                                 *)

Callers == {1, 2}

\* The last tick of the clock.
MaxTime == 8

\* The 60-second window, in ticks.
WindowTicks == 4

\* minDelaySeconds (15 s or 30 s), maxRequestsPerWindow, and the fallback for
\* a missing Retry-After and the request timeout (30 s each).
Configs ==
    [minDelay : {1, 2}, maxPerWindow : {2, 3},
     retryAfterFallback : {2}, requestTimeout : {2}]

\* A call that has not started or has ended in pc; in flight, req is the
\* request, wake the instant a suspension ends, attempts the requests issued,
\* issued the time of the last one, status the last answer, retryAfter the
\* Retry-After header of a 429 (0: none) and throttledAt its time.
CallState(pc, status) ==
    [pc |-> pc, req |-> <<>>, wake |-> 0, attempts |-> 0, issued |-> 0,
     status |-> status, retryAfter |-> 0, throttledAt |-> 0]

\* Step 1: max(lastRequestTime + minDelay, windowStart + 60s if
\* requestsInWindow >= maxPerWindow else now).
EarliestAllowed(now, sent, cfg) ==
    LET paced == IF sent = <<>> THEN now ELSE sent[Len(sent)].time + cfg.minDelay
        inWindow == {i \in 1..Len(sent) : sent[i].time + WindowTicks > now}
        windowStart == sent[CHOOSE i \in inWindow : \A j \in inWindow : i <= j].time
        slot == IF Cardinality(inWindow) >= cfg.maxPerWindow
                THEN windowStart + WindowTicks ELSE now
    IN  IF paced >= slot THEN paced ELSE slot

\* Mutant: the retry follows the 429 at once.
RetryDelay_none(header, cfg) == 0

\* Step 4: the Retry-After header in ticks, or the fallback when there is none.
RetryDelay(header, cfg) ==
    IF header = 0 THEN cfg.retryAfterFallback ELSE header

\* Mutant: a caller goes ahead whoever holds the scheduler.
MayEnter_always(c) == TRUE

\* The mutual exclusion of the scheduler: a caller goes ahead when no other
\* caller holds it.
MayEnter(c) == fLock = 0

\* A caller asks for a page: it queues behind the scheduler.
call(c) ==
    /\ UNCHANGED <<mergeVars, svcVars, pageVars, logVars, builderVars>>
    /\ fcall[c].pc \in {"Idle", "Success", "Throttled", "Failed", "TimedOut"}
    /\ fcall' = [fcall EXCEPT ![c] =
                    [CallState("Queued", 0) EXCEPT !.req = <<"page", c>>]]
    /\ UNCHANGED <<fnow, fcfg, fLock, fSent>>

\* Steps 1 and 2: the caller's turn comes; it computes its slot and suspends
\* until then.
enter(c) ==
    /\ UNCHANGED <<mergeVars, svcVars, pageVars, logVars, builderVars>>
    /\ fcall[c].pc = "Queued"
    /\ MayEnter(c)
    /\ fLock' = c
    /\ fcall' = [fcall EXCEPT ![c].pc = "Waiting",
                              ![c].wake = EarliestAllowed(fnow, fSent, fcfg)]
    /\ UNCHANGED <<fnow, fcfg, fSent>>

\* Step 3: the request goes out.
issue(c) ==
    /\ UNCHANGED <<mergeVars, svcVars, pageVars, logVars, builderVars>>
    /\ fcall[c].pc = "Waiting"
    /\ fnow >= fcall[c].wake
    /\ fSent' = Append(fSent, [time |-> fnow, caller |-> c, req |-> fcall[c].req])
    /\ fcall' = [fcall EXCEPT ![c].pc = "InFlight", ![c].attempts = 1,
                              ![c].issued = fnow]
    /\ UNCHANGED <<fnow, fcfg, fLock>>

\* Steps 3 to 5: the answer arrives within the timeout: 2xx, 429 with or
\* without Retry-After, another status, or a transport error (status 0).
respond(c) ==
    /\ UNCHANGED <<mergeVars, svcVars, pageVars, logVars, builderVars>>
    /\ fcall[c].pc = "InFlight"
    /\ fnow < fcall[c].issued + fcfg.requestTimeout
    /\ \E status \in {200, 429, 500, 0}, header \in {0, 1} :
          /\ status # 429 => header = 0
          /\ IF status = 429 /\ fcall[c].attempts = 1
             THEN /\ fcall' = [fcall EXCEPT ![c].pc = "RetryWait",
                                            ![c].status = status,
                                            ![c].retryAfter = header,
                                            ![c].throttledAt = fnow,
                                            ![c].wake = fnow + RetryDelay(header, fcfg)]
                  /\ UNCHANGED fLock
             ELSE /\ fcall' = [fcall EXCEPT ![c] =
                                  CallState(IF status = 200 THEN "Success"
                                            ELSE IF status = 429 THEN "Throttled"
                                            ELSE "Failed", status)]
                  /\ fLock' = IF fLock = c THEN 0 ELSE fLock
    /\ UNCHANGED <<fnow, fcfg, fSent>>

\* Step 3: the timeout aborts the call.
timeOut(c) ==
    /\ UNCHANGED <<mergeVars, svcVars, pageVars, logVars, builderVars>>
    /\ fcall[c].pc = "InFlight"
    /\ fnow >= fcall[c].issued + fcfg.requestTimeout
    /\ fcall' = [fcall EXCEPT ![c] = CallState("TimedOut", 0)]
    /\ fLock' = IF fLock = c THEN 0 ELSE fLock
    /\ UNCHANGED <<fnow, fcfg, fSent>>

\* Step 4: the suspension for Retry-After is over; the same request goes out
\* once more.
retry(c) ==
    /\ UNCHANGED <<mergeVars, svcVars, pageVars, logVars, builderVars>>
    /\ fcall[c].pc = "RetryWait"
    /\ fnow >= fcall[c].wake
    /\ fSent' = Append(fSent, [time |-> fnow, caller |-> c, req |-> fcall[c].req])
    /\ fcall' = [fcall EXCEPT ![c].pc = "InFlight", ![c].attempts = 2,
                              ![c].issued = fnow]
    /\ UNCHANGED <<fnow, fcfg, fLock>>

\* Time passes, once every suspension that ends now has ended and every
\* request whose timeout is reached has been aborted; the requests older than
\* the window leave the rate window.
tick ==
    /\ UNCHANGED <<mergeVars, svcVars, pageVars, logVars, builderVars>>
    /\ fnow < MaxTime
    /\ \A c \in Callers :
          /\ fcall[c].pc = "InFlight" => fnow < fcall[c].issued + fcfg.requestTimeout
          /\ fcall[c].pc \in {"Waiting", "RetryWait"} => fnow < fcall[c].wake
    /\ fnow' = fnow + 1
    /\ fSent' = SelectSeq(fSent, LAMBDA r : r.time + WindowTicks > fnow + 1)
    /\ UNCHANGED <<fcfg, fLock, fcall>>

-----------------------------------------------------------------------------
(* SpecLog: the API log under calls, clearApiLog and a caller of getApiLog *)

\* The number of calls logged between two clears.
MaxInserts == 105

\* The entry of the call that follows n logged calls: fetchAddressDetails of
\* `address-${n}`, with what the successive calls end in.
CallEntry(n) ==
    LET outcomes ==
            <<[kind |-> "response", status |-> 200], [kind |-> "response", status |-> 404],
              [kind |-> "timeout", status |-> 0], [kind |-> "response", status |-> 429],
              [kind |-> "error", status |-> 0], [kind |-> "response", status |-> 503],
              [kind |-> "response", status |-> 500]>>
    IN  LogEntry(Url("details", "address-" \o ToString(n), 50, 0),
                 outcomes[(n % Len(outcomes)) + 1])

\* Mutant: getApiLog returns the stored array itself.
getApiLogReturns_alias ==
    "store"

\* return [...apiLog]: a new array with the elements of the stored one.
getApiLogReturns ==
    "copy"

\* The array the caller's reference denotes.
SnapView == IF snapIs = "store" THEN apiLog ELSE snapshot

\* An entry the caller makes up.
CallerEntry ==
    LogEntry(Url("caller", "", 0, 0), [kind |-> "error", status |-> 0])

\* A call of fetchAddressDetails settles: fetchWithTimeout logs it.
fetchAddressDetails ==
    /\ UNCHANGED <<mergeVars, pageVars, builderVars, fetcherVars>>
    /\ Len(inserted) < MaxInserts
    /\ apiLog' = addApiLogEntry(apiLog, CallEntry(Len(inserted)))
    /\ inserted' = Append(inserted, CallEntry(Len(inserted)))
    /\ UNCHANGED <<spc, sCall, sAddr, sResult, sResponse, sError, httpRequests, snapIs, snapshot>>

\* apiLog.length = 0
clearApiLog ==
    /\ UNCHANGED <<mergeVars, pageVars, builderVars, fetcherVars>>
    /\ apiLog' = <<>>
    /\ inserted' = <<>>
    /\ UNCHANGED <<spc, sCall, sAddr, sResult, sResponse, sError, httpRequests, snapIs, snapshot>>

\* A caller takes the log.
getApiLog ==
    /\ UNCHANGED <<mergeVars, pageVars, builderVars, fetcherVars>>
    /\ snapIs = "none"
    /\ snapIs' = getApiLogReturns
    /\ snapshot' = IF getApiLogReturns = "copy" THEN apiLog ELSE <<>>
    /\ UNCHANGED <<spc, sCall, sAddr, sResult, sResponse, sError, httpRequests, apiLog, inserted>>

\* The caller changes the array it got: logs.length = 0, or
\* logs.unshift(entry).
callerChangesArray ==
    /\ UNCHANGED <<mergeVars, pageVars, builderVars, fetcherVars>>
    /\ snapIs # "none"
    /\ \E op \in {"truncate", "unshift"} :
          /\ op = "truncate" => SnapView # <<>>
          /\ op = "unshift" => (IF SnapView = <<>> THEN TRUE ELSE Head(SnapView) # CallerEntry)
          /\ IF snapIs = "store"
             THEN /\ apiLog' = IF op = "truncate" THEN <<>> ELSE <<CallerEntry>> \o apiLog
                  /\ UNCHANGED snapshot
             ELSE /\ snapshot' = IF op = "truncate" THEN <<>> ELSE <<CallerEntry>> \o snapshot
                  /\ UNCHANGED apiLog
    /\ UNCHANGED <<spc, sCall, sAddr, sResult, sResponse, sError, httpRequests, snapIs, inserted>>

-----------------------------------------------------------------------------
(* The graph builder                                                       *)

\* An input or output without a resolvable address.
NoAddr == ""

\* The string of a sequence of characters.
RECURSIVE Join(_)
Join(chars) == IF chars = <<>> THEN "" ELSE Head(chars) \o Join(Tail(chars))

Min(a, b) == IF a <= b THEN a ELSE b

\* `${address.slice(0, 8)}...${address.slice(-8)}` on the characters of the
\* address.
LabelOf(chars) ==
    LET n == Len(chars)
    IN  Join(SubSeq(chars, 1, Min(8, n))) \o "..."
          \o Join(SubSeq(chars, IF n > 8 THEN n - 7 ELSE 1, n))

\* The addresses of the ledger, as character sequences.
TextA == MkAddress(<<"1">>, "A", 33, <<>>)                 \* legacy, 34 characters
TextB == MkAddress(<<"b", "c", "1", "q">>, "b", 38, <<>>)  \* SegWit v0
TextT == MkAddress(<<"b", "c", "1", "p">>, "t", 58, <<>>)  \* Taproot
TextD == MkAddress(<<"3">>, "D", 33, <<>>)
TextE == MkAddress(<<"1">>, "E", 33, <<>>)

LedgerTexts == {TextA, TextB, TextT, TextD, TextE}

AddrA == Join(TextA)
AddrB == Join(TextB)
AddrT == Join(TextT)
AddrD == Join(TextD)
AddrE == Join(TextE)

\* What the user can type: nothing, an address with blanks around it, and a
\* string that is no address.
InputTexts ==
    {<<>>, <<" ">> \o TextA \o <<" ">>,
     <<"n", "o", "t", "a", "n", "a", "d", "d", "r", "e", "s", "s">>}

IsBlank(c) == c \in {" "}

\* String.prototype.trim
RECURSIVE TrimLeft(_)
TrimLeft(chars) ==
    IF chars # <<>> /\ IsBlank(Head(chars)) THEN TrimLeft(Tail(chars)) ELSE chars

RECURSIVE TrimRight(_)
TrimRight(chars) ==
    IF chars # <<>> /\ IsBlank(chars[Len(chars)])
    THEN TrimRight(SubSeq(chars, 1, Len(chars) - 1)) ELSE chars

Trim(chars) == TrimRight(TrimLeft(chars))

\* The characters of every string the page handles, by string.
KnownTexts == LedgerTexts \cup InputTexts \cup {Trim(t) : t \in InputTexts}
TextTable == [str \in {Join(t) : t \in KnownTexts} |->
                 CHOOSE t \in KnownTexts : Join(t) = str]
TextOf(str) == TextTable[str]

\* The input strings, and String.prototype.trim on the strings of the model.
InputStrings == {Join(t) : t \in InputTexts}
TrimmedOf == [str \in DOMAIN TextTable |-> Join(Trim(TextTable[str]))]

\* The outcomes of the validator and of the checks of BlockchainService on
\* the strings of the model.
ValidityOf == [str \in DOMAIN TextTable |-> isValidBitcoinAddress(TextTable[str])]
DetailsThrowsOf == [str \in DOMAIN TextTable |-> getAddressDetailsThrows(TextTable[str])]
GraphThrowsOf == [str \in DOMAIN TextTable |-> getAddressGraphThrows(TextTable[str])]

LabelOfString(str) == LabelOf(TextOf(str))

\* tx.out.some(output => output.addr === address)
SomeOutputTo(tx, addr) == \E i \in 1..Len(tx.out) : tx.out[i].addr = addr

\* tx.inputs.some(i => i.prev_out?.addr === address)
SomeInputFrom(tx, addr) == \E i \in 1..Len(tx.inputs) : tx.inputs[i].addr = addr

\* Mutant: the link of an input carries the value of the output to addr.
InputLegs_outputvalue(addr, tx) ==
    LET resolved == SelectSeq(tx.inputs, LAMBDA input : input.addr # NoAddr)
        paid == SelectSeq(tx.out, LAMBDA output : output.addr = addr)
    IN  [k \in 1..Len(resolved) |->
            [node |-> resolved[k].addr,
             links |-> IF paid # <<>>
                       THEN <<[source |-> resolved[k].addr, target |-> addr,
                               value |-> paid[1].value, txHash |-> tx.hash,
                               timestamp |-> tx.time]>>
                       ELSE <<>>]]

\* A leg is one resolvable input or output the builder visits: the address it
\* ensures a node for, and the link it pushes, if any.
\* tx.inputs.forEach: every input with a source address is a leg; it pushes
\* the link source -> addr when some output of the transaction goes to addr.
InputLegs(addr, tx) ==
    LET resolved == SelectSeq(tx.inputs, LAMBDA input : input.addr # NoAddr)
    IN  [k \in 1..Len(resolved) |->
            [node |-> resolved[k].addr,
             links |-> IF SomeOutputTo(tx, addr)
                       THEN <<[source |-> resolved[k].addr, target |-> addr,
                               value |-> resolved[k].value, txHash |-> tx.hash,
                               timestamp |-> tx.time]>>
                       ELSE <<>>]]

\* tx.out.forEach: every output with a destination other than addr is a leg;
\* it pushes the link addr -> destination when some input comes from addr.
OutputLegs(addr, tx) ==
    LET resolved == SelectSeq(tx.out, LAMBDA output :
                                 output.addr # NoAddr /\ output.addr # addr)
    IN  [k \in 1..Len(resolved) |->
            [node |-> resolved[k].addr,
             links |-> IF SomeInputFrom(tx, addr)
                       THEN <<[source |-> addr, target |-> resolved[k].addr,
                               value |-> resolved[k].value, txHash |-> tx.hash,
                               timestamp |-> tx.time]>>
                       ELSE <<>>]]

\* transactions.forEach: the legs of all transactions in the order the builder
\* visits them, the inputs of a transaction before its outputs. The sequence
\* is split in two to keep the evaluation shallow.
RECURSIVE EachTransaction(_, _)
EachTransaction(addr, transactions) ==
    IF transactions = <<>> THEN <<>>
    ELSE IF Len(transactions) = 1
    THEN InputLegs(addr, transactions[1]) \o OutputLegs(addr, transactions[1])
    ELSE LET half == Len(transactions) \div 2
         IN  EachTransaction(addr, SubSeq(transactions, 1, half))
               \o EachTransaction(addr, SubSeq(transactions, half + 1, Len(transactions)))

\* if (!nodes.has(a)) nodes.set(a, {id: a, label: ...}) for every leg in turn
RECURSIVE LegNodes(_, _)
LegNodes(nodes, legs) ==
    IF legs = <<>> THEN nodes
    ELSE LET a == Head(legs).node
         IN  LegNodes(IF MapHas(nodes, a) THEN nodes
                      ELSE MapSet(nodes, a, [id |-> a, label |-> LabelOfString(a)]),
                      Tail(legs))

\* links.push(...) for every leg in turn
RECURSIVE LegLinks(_)
LegLinks(legs) ==
    IF legs = <<>> THEN <<>> ELSE Head(legs).links \o LegLinks(Tail(legs))

\* Mutant: the map of nodes starts empty.
convertTransactionsToGraph_nocentre(addr, transactions) ==
    LET legs == EachTransaction(addr, transactions)
    IN  [nodes |-> MapValues(LegNodes(<<>>, legs)), links |-> LegLinks(legs)]

convertTransactionsToGraph(addr, transactions) ==
    LET nodes0 == MapSet(<<>>, addr, [id |-> addr, label |-> LabelOfString(addr)])
        legs == EachTransaction(addr, transactions)
    IN  [nodes |-> MapValues(LegNodes(nodes0, legs)), links |-> LegLinks(legs)]

-----------------------------------------------------------------------------
(* SpecBuilder: convertTransactionsToGraph on a drawn page, and the graph  *)
(* it returns stored through mergeGraphData                                *)

\* The most inputs, and the most outputs, of a drawn transaction.
MaxLegs == 2

\* An input (its prev_out) or an output: unresolvable, or of A or B with a
\* value of 1 or 2.
DrawnLegs ==
    {[addr |-> NoAddr, value |-> 0]}
      \cup {[addr |-> a, value |-> v] : a \in {AddrA, AddrB}, v \in {1, 2}}

\* A transaction of 1..MaxLegs inputs and 1..MaxLegs outputs.
DrawnTxs ==
    LET legSeqs == UNION {[1..n -> DrawnLegs] : n \in 1..MaxLegs}
    IN  {[hash |-> "h0", time |-> 3000, inputs |-> ins, out |-> outs] :
            ins \in legSeqs, outs \in legSeqs}

\* The older transactions of the page, after the drawn one: none; A pays B;
\* B pays A and D pays A.
OlderTxs ==
    {<<>>,
     <<[hash |-> "h5", time |-> 2500,
        inputs |-> <<[addr |-> AddrA, value |-> 30]>>,
        out |-> <<[addr |-> AddrB, value |-> 20]>>]>>,
     <<[hash |-> "h6", time |-> 2400,
        inputs |-> <<[addr |-> AddrB, value |-> 9]>>,
        out |-> <<[addr |-> AddrA, value |-> 8]>>],
       [hash |-> "h7", time |-> 2300,
        inputs |-> <<[addr |-> AddrD, value |-> 10]>>,
        out |-> <<[addr |-> AddrA, value |-> 10]>>]>>}

\* The builder is called on the page.
buildGraph ==
    /\ UNCHANGED <<mergeVars, svcVars, pageVars, logVars, fetcherVars>>
    /\ bpc = "drawn"
    /\ bGraph' = convertTransactionsToGraph(bAddr, bTxs)
    /\ bpc' = "built"
    /\ UNCHANGED <<bAddr, bTxs, bAsExisting, bAsIncoming, bOther, bMerged>>

\* The graph of the page is the existing graph of a merge.
storeAsExisting ==
    /\ UNCHANGED <<mergeVars, svcVars, pageVars, logVars, fetcherVars>>
    /\ bpc = "built" /\ bAsExisting = EmptyGraph
    /\ bAsExisting' = mergeGraphData(bGraph, EmptyGraph)
    /\ UNCHANGED <<bpc, bAddr, bTxs, bGraph, bAsIncoming, bOther, bMerged>>

\* The graph of the page is the incoming graph of a merge.
storeAsIncoming ==
    /\ UNCHANGED <<mergeVars, svcVars, pageVars, logVars, fetcherVars>>
    /\ bpc = "built" /\ bAsIncoming = EmptyGraph
    /\ bAsIncoming' = mergeGraphData(EmptyGraph, bGraph)
    /\ UNCHANGED <<bpc, bAddr, bTxs, bGraph, bAsExisting, bOther, bMerged>>

-----------------------------------------------------------------------------
(* The ledger behind the backend, and the backend's answers                *)

\* The number of transactions of address A (more than the 50 of a search)
\* and of address B (more than the 10 of a details page).
NumTxA == 52
NumTxB == 11

\* A transaction with no resolvable input that pays one address.
Coinbase(hash, to) ==
    [hash |-> hash, time |-> 1000,
     inputs |-> <<[addr |-> NoAddr, value |-> 0]>>,
     out |-> <<[addr |-> to, value |-> 1]>>]

\* B pays A: one input from B (50,000,000), one output to A (100,000,000).
TxBA == [hash |-> "h1", time |-> 2000,
         inputs |-> <<[addr |-> AddrB, value |-> 50000000]>>,
         out |-> <<[addr |-> AddrA, value |-> 100000000]>>]
\* A pays the Taproot address T.
TxAT == [hash |-> "h2", time |-> 1900,
         inputs |-> <<[addr |-> AddrA, value |-> 70]>>,
         out |-> <<[addr |-> AddrT, value |-> 60]>>]
\* D pays A; it is beyond the first 50 transactions of A.
TxDA == [hash |-> "h3", time |-> 1100,
         inputs |-> <<[addr |-> AddrD, value |-> 10]>>,
         out |-> <<[addr |-> AddrA, value |-> 10]>>]
\* E pays B; it is beyond the first 10 transactions of B.
TxEB == [hash |-> "h4", time |-> 1200,
         inputs |-> <<[addr |-> AddrE, value |-> 5]>>,
         out |-> <<[addr |-> AddrB, value |-> 5]>>]

\* The transactions of the two busy addresses, newest first.
LedgerA ==
    [i \in 1..NumTxA |->
        IF i = 1 THEN TxBA ELSE IF i = 11 THEN TxAT ELSE IF i = 51 THEN TxDA
        ELSE Coinbase("a" \o ToString(i), AddrA)]
LedgerB ==
    [i \in 1..NumTxB |->
        IF i = 1 THEN TxBA ELSE IF i = 11 THEN TxEB
        ELSE Coinbase("b" \o ToString(i), AddrB)]

\* The transactions of an address, as the upstream API lists them.
Ledger(addr) ==
    IF addr = AddrA THEN LedgerA
    ELSE IF addr = AddrB THEN LedgerB
    ELSE IF addr = AddrT THEN <<TxAT>>
    ELSE IF addr = AddrD THEN <<TxDA>>
    ELSE IF addr = AddrE THEN <<TxEB>>
    ELSE <<>>

\* The page ?limit=..&offset=.. of the transactions of an address.
Page(addr, limit, offset) ==
    LET txs == Ledger(addr)
    IN  SubSeq(txs, offset + 1, Min(offset + limit, Len(txs)))

\* The body of GET /api/address/{address}/graph on success.
GraphResponse(addr, limit, offset) ==
    convertTransactionsToGraph(addr, Page(addr, limit, offset))

\* The body of GET /api/address/{address} on success: the address, its number
\* of transactions and the hashes of the page.
DetailsResponse(addr, limit, offset) ==
    LET page == Page(addr, limit, offset)
    IN  [address |-> addr, n_tx |-> Len(Ledger(addr)),
         txs |-> [i \in 1..Len(page) |-> page[i].hash]]

-----------------------------------------------------------------------------
(* Spec: the page (Home) with its AddressDetailsPanel                      *)

MAX_EXPANSIONS == 3

\* The number of fetches one run issues.
MaxFetches == 5

NoNode == [id |-> "", label |-> ""]
NoData == [address |-> "", n_tx |-> 0, txs |-> <<>>]

Bc1pPrefix == <<"b", "c", "1", "p">>

\* A pending fetch: the call awaited and the values its closure holds.
Task(kind, addr, offset, graph, data) ==
    [kind |-> kind, addr |-> addr, offset |-> offset, graph |-> graph, data |-> data]

\* The pending fetches are a bag: they settle in any order.
Settled(pending, t) == pending (-) SetToBag({t})
Started(pending, t) == pending (+) SetToBag({t})

\* Array.prototype.filter(n => !existingNodeIds.has(n.id))
RECURSIVE FilterNewNodes(_, _)
FilterNewNodes(nodes, existingNodeIds) ==
    IF nodes = <<>> THEN <<>>
    ELSE IF Head(nodes).id \in existingNodeIds
         THEN FilterNewNodes(Tail(nodes), existingNodeIds)
         ELSE <<Head(nodes)>> \o FilterNewNodes(Tail(nodes), existingNodeIds)

\* Mutant: the new nodes are appended unfiltered.
updatedGraphData_unfiltered(graph, newData) ==
    [nodes |-> graph.nodes \o newData.nodes,
     links |-> graph.links \o newData.links]

\* updatedGraphData of handleExpandGraph and handleUpdateGraphFromTransactions:
\* graph is the graphData the handler's closure holds.
updatedGraphData(graph, newData) ==
    LET existingNodeIds == NodeIds(graph)
        newNodes == FilterNewNodes(newData.nodes, existingNodeIds)
    IN  [nodes |-> graph.nodes \o newNodes,
         links |-> graph.links \o newData.links]

\* The panel's useEffect on selectedNode: whether it fetches the details.
EffectFetches(node) ==
    /\ node # NoNode
    /\ ~StartsWith(TextOf(node.id), Bc1pPrefix)
    /\ ~(Len(TextOf(node.id)) > 72)
    /\ DetailsThrowsOf[node.id] = "none"

\* The panel's useEffect on selectedNode: the panel state it leaves.
EffectPanel(node, p) ==
    IF node = NoNode
    THEN [p EXCEPT !.addressData = NoData, !.error = "none"]
    ELSE IF StartsWith(TextOf(node.id), Bc1pPrefix)
    THEN [p EXCEPT !.error = "taproot", !.addressData = NoData, !.loading = FALSE]
    ELSE IF Len(TextOf(node.id)) > 72
    THEN [p EXCEPT !.error = "unsupported", !.addressData = NoData, !.loading = FALSE]
    ELSE IF DetailsThrowsOf[node.id] # "none"
    THEN [addressData |-> NoData, loading |-> FALSE,
          error |-> DetailsThrowsOf[node.id], offset |-> 0]
    ELSE [addressData |-> NoData, loading |-> TRUE, error |-> "none", offset |-> 0]

EffectTasks(node) ==
    IF EffectFetches(node)
    THEN SetToBag({Task("details", node.id, 0, EmptyGraph, NoData)})
    ELSE EmptyBag

PageParked ==
    /\ inputValue = "" /\ address = "" /\ graphData = EmptyGraph
    /\ selectedNode = NoNode /\ loading = FALSE /\ error = "none"
    /\ expandCount = 0 /\ expandLoading = FALSE
    /\ panel = [addressData |-> NoData, loading |-> FALSE, error |-> "none", offset |-> 0]
    /\ tasks = EmptyBag /\ nfetch = 0

\* The useState initial values.
PageInit == PageParked

\* onChange of the search box
setInputValue ==
    /\ UNCHANGED <<mergeVars, svcVars, restVars>>
    /\ /\ \E str \in InputStrings : inputValue' = str /\ inputValue' # inputValue
       /\ error' = "none"
       /\ UNCHANGED <<address, graphData, selectedNode, loading, expandCount,
                      expandLoading, panel, tasks, nfetch>>

\* The same onChange for a user who types one of two addresses.
typeAddress ==
    /\ UNCHANGED <<mergeVars, svcVars, restVars>>
    /\ /\ \E str \in {AddrA, AddrD} : inputValue' = str /\ inputValue' # inputValue
       /\ error' = "none"
       /\ UNCHANGED <<address, graphData, selectedNode, loading, expandCount,
                      expandLoading, panel, tasks, nfetch>>

\* handleSearch up to its await (the button or the Enter key).
handleSearch ==
    /\ UNCHANGED <<mergeVars, svcVars, restVars>>
    /\ LET trimmedAddress == TrimmedOf[inputValue]
       IN  IF trimmedAddress = ""
           THEN /\ error' = "enter"
                /\ UNCHANGED <<inputValue, address, graphData, selectedNode, loading,
                               expandCount, expandLoading, panel, tasks, nfetch>>
           ELSE IF ~ValidityOf[trimmedAddress]
           THEN /\ error' = "invalid"
                /\ UNCHANGED <<inputValue, address, graphData, selectedNode, loading,
                               expandCount, expandLoading, panel, tasks, nfetch>>
           ELSE /\ nfetch < MaxFetches
                /\ address' = trimmedAddress
                /\ selectedNode' = NoNode
                /\ error' = "none"
                /\ loading' = TRUE
                /\ expandCount' = 0
                /\ panel' = IF selectedNode # NoNode THEN EffectPanel(NoNode, panel)
                            ELSE panel
                /\ IF GraphThrowsOf[trimmedAddress] # "none"
                   THEN UNCHANGED <<tasks, nfetch>>
                   ELSE /\ tasks' = Started(tasks, Task("search", trimmedAddress, 0,
                                                       EmptyGraph, NoData))
                        /\ nfetch' = nfetch + 1
                /\ UNCHANGED <<inputValue, graphData, expandLoading>>

\* handleSearch after its await: the graph replaces graphData and the central
\* node is selected, or the error is shown and graphData is emptied.
handleSearchDone ==
    /\ UNCHANGED <<mergeVars, svcVars, restVars>>
    /\ \E t \in BagToSet(tasks) : \E ok \in BOOLEAN :
           LET data == GraphResponse(t.addr, 50, 0)
               centralNode == data.nodes[CHOOSE k \in 1..Len(data.nodes) :
                                             data.nodes[k].id = t.addr]
           IN  /\ t.kind = "search"
               /\ IF ok
                  THEN /\ nfetch + BagCardinality(EffectTasks(centralNode)) <= MaxFetches
                       /\ graphData' = data
                       /\ selectedNode' = centralNode
                       /\ panel' = EffectPanel(centralNode, panel)
                       /\ tasks' = Settled(tasks, t) (+) EffectTasks(centralNode)
                       /\ nfetch' = nfetch + BagCardinality(EffectTasks(centralNode))
                       /\ UNCHANGED error
                  ELSE /\ error' = "failed"
                       /\ graphData' = EmptyGraph
                       /\ tasks' = Settled(tasks, t)
                       /\ UNCHANGED <<selectedNode, panel, nfetch>>
               /\ loading' = FALSE
               /\ UNCHANGED <<inputValue, address, expandCount, expandLoading>>

\* handleNodeClick of the graph and of the page: a node of the shown graph
\* becomes the selected node, and the panel's effect runs for it.
handleNodeClick ==
    /\ UNCHANGED <<mergeVars, svcVars, restVars>>
    /\ \E k \in 1..Len(graphData.nodes) :
           LET clickedNode == graphData.nodes[k]
           IN  /\ address # ""
               /\ clickedNode # selectedNode
               /\ nfetch + BagCardinality(EffectTasks(clickedNode)) <= MaxFetches
               /\ selectedNode' = clickedNode
               /\ panel' = EffectPanel(clickedNode, panel)
               /\ tasks' = tasks (+) EffectTasks(clickedNode)
               /\ nfetch' = nfetch + BagCardinality(EffectTasks(clickedNode))
               /\ UNCHANGED <<inputValue, address, graphData, loading, error,
                              expandCount, expandLoading>>

\* The panel's getAddressDetails(selectedNode.id, 10, 0) settles.
detailsDone ==
    /\ UNCHANGED <<mergeVars, svcVars, restVars>>
    /\ \E t \in BagToSet(tasks) : \E ok \in BOOLEAN :
           /\ t.kind = "details"
           /\ panel' = IF ok
                       THEN [panel EXCEPT !.addressData = DetailsResponse(t.addr, 10, 0),
                                          !.error = "none", !.loading = FALSE]
                       ELSE [panel EXCEPT !.addressData = NoData,
                                          !.error = "failed", !.loading = FALSE]
           /\ tasks' = Settled(tasks, t)
           /\ UNCHANGED <<inputValue, address, graphData, selectedNode, loading,
                          error, expandCount, expandLoading, nfetch>>

\* handleExpandGraph up to its await. The button is disabled while an
\* expansion is pending; the handler itself refuses at MAX_EXPANSIONS.
handleExpandGraph ==
    /\ UNCHANGED <<mergeVars, svcVars, restVars>>
    /\ /\ address # ""
       /\ ~expandLoading
       /\ IF expandCount >= MAX_EXPANSIONS
          THEN /\ error' = "max"
               /\ UNCHANGED <<expandLoading, tasks, nfetch>>
          ELSE /\ expandLoading' = TRUE
               /\ error' = "none"
               /\ IF GraphThrowsOf[address] # "none"
                  THEN UNCHANGED <<tasks, nfetch>>
                  ELSE /\ nfetch < MaxFetches
                       /\ tasks' = Started(tasks, Task("expand", address,
                                                      50 + expandCount * 10,
                                                      graphData, NoData))
                       /\ nfetch' = nfetch + 1
       /\ UNCHANGED <<inputValue, address, graphData, selectedNode, loading,
                      expandCount, panel>>

\* Mutant: a failed expansion is counted like a successful one.
handleExpandGraphDone_countsfailure ==
    /\ UNCHANGED <<mergeVars, svcVars, restVars>>
    /\ \E t \in BagToSet(tasks) : \E ok \in BOOLEAN :
           LET newData == GraphResponse(t.addr, 10, t.offset)
           IN  /\ t.kind = "expand"
               /\ IF ok
                  THEN /\ graphData' = updatedGraphData(t.graph, newData)
                       /\ UNCHANGED error
                  ELSE /\ error' = "failed"
                       /\ UNCHANGED graphData
               /\ expandCount' = expandCount + 1
               /\ expandLoading' = FALSE
               /\ tasks' = Settled(tasks, t)
               /\ UNCHANGED <<inputValue, address, selectedNode, loading, panel, nfetch>>

\* handleExpandGraph after its await.
handleExpandGraphDone ==
    /\ UNCHANGED <<mergeVars, svcVars, restVars>>
    /\ \E t \in BagToSet(tasks) : \E ok \in BOOLEAN :
           LET newData == GraphResponse(t.addr, 10, t.offset)
           IN  /\ t.kind = "expand"
               /\ IF ok
                  THEN /\ graphData' = updatedGraphData(t.graph, newData)
                       /\ expandCount' = expandCount + 1
                       /\ UNCHANGED error
                  ELSE /\ error' = "failed"
                       /\ UNCHANGED <<graphData, expandCount>>
               /\ expandLoading' = FALSE
               /\ tasks' = Settled(tasks, t)
               /\ UNCHANGED <<inputValue, address, selectedNode, loading, panel, nfetch>>

\* handleLoadMore up to its first await. The button shows while fewer
\* transactions are loaded than the address has, and is disabled while the
\* panel loads. The closure holds addressData, and through onUpdateGraph the
\* graphData of the same render.
handleLoadMore ==
    /\ UNCHANGED <<mergeVars, svcVars, restVars>>
    /\ /\ address # ""
       /\ selectedNode # NoNode
       /\ panel.addressData # NoData
       /\ Len(panel.addressData.txs) > 0
       /\ Len(panel.addressData.txs) < panel.addressData.n_tx
       /\ ~panel.loading
       /\ LET newOffset == panel.offset + 10
              thrown == DetailsThrowsOf[selectedNode.id]
          IN  IF thrown # "none"
              THEN /\ panel' = [panel EXCEPT !.error = thrown, !.loading = FALSE]
                   /\ UNCHANGED <<tasks, nfetch>>
              ELSE /\ nfetch < MaxFetches
                   /\ panel' = [panel EXCEPT !.loading = TRUE]
                   /\ tasks' = Started(tasks, Task("loadmore", selectedNode.id, newOffset,
                                                  graphData, panel.addressData))
                   /\ nfetch' = nfetch + 1
       /\ UNCHANGED <<inputValue, address, graphData, selectedNode, loading, error,
                      expandCount, expandLoading>>

\* handleLoadMore after getAddressDetails: the transactions are appended and
\* onUpdateGraph goes on to getAddressGraph, or the error is shown.
handleLoadMoreDone ==
    /\ UNCHANGED <<mergeVars, svcVars, restVars>>
    /\ \E t \in BagToSet(tasks) : \E ok \in BOOLEAN :
           LET newData == DetailsResponse(t.addr, 10, t.offset)
           IN  /\ t.kind = "loadmore"
               /\ IF ok
                  THEN IF GraphThrowsOf[t.addr] # "none"
                       THEN /\ panel' = [panel EXCEPT
                                           !.addressData = [t.data EXCEPT
                                               !.txs = t.data.txs \o newData.txs],
                                           !.offset = t.offset,
                                           !.loading = FALSE]
                            /\ tasks' = Settled(tasks, t)
                            /\ UNCHANGED nfetch
                       ELSE /\ nfetch < MaxFetches
                            /\ panel' = [panel EXCEPT
                                           !.addressData = [t.data EXCEPT
                                               !.txs = t.data.txs \o newData.txs],
                                           !.offset = t.offset]
                            /\ tasks' = Started(Settled(tasks, t),
                                             Task("update", t.addr, t.offset,
                                                  t.graph, NoData))
                            /\ nfetch' = nfetch + 1
                  ELSE /\ panel' = [panel EXCEPT !.error = "failed", !.loading = FALSE]
                       /\ tasks' = Settled(tasks, t)
                       /\ UNCHANGED nfetch
               /\ UNCHANGED <<inputValue, address, graphData, selectedNode, loading,
                              error, expandCount, expandLoading>>

\* handleUpdateGraphFromTransactions after its await, and the finally of the
\* handleLoadMore that awaited it.
handleUpdateGraphFromTransactions ==
    /\ UNCHANGED <<mergeVars, svcVars, restVars>>
    /\ \E t \in BagToSet(tasks) : \E ok \in BOOLEAN :
           LET newData == GraphResponse(t.addr, 10, t.offset)
           IN  /\ t.kind = "update"
               /\ graphData' = IF ok THEN updatedGraphData(t.graph, newData) ELSE graphData
               /\ panel' = [panel EXCEPT !.loading = FALSE]
               /\ tasks' = Settled(tasks, t)
               /\ UNCHANGED <<inputValue, address, selectedNode, loading, error,
                              expandCount, expandLoading, nfetch>>

-----------------------------------------------------------------------------
(* The specifications                                                      *)

vars == <<mergeVars, svcVars, pageVars, restVars>>

LogParked == snapIs = "none" /\ snapshot = <<>> /\ inserted = <<>>
BuilderParked ==
    /\ bpc = "off" /\ bAddr = "" /\ bTxs = <<>>
    /\ bGraph = EmptyGraph /\ bAsExisting = EmptyGraph /\ bAsIncoming = EmptyGraph
    /\ bOther = EmptyGraph /\ bMerged = EmptyGraph
FetcherParked ==
    /\ fnow = 0 /\ fcfg = [minDelay |-> 0] /\ fLock = 0 /\ fcall = <<>> /\ fSent = <<>>
RestParked == LogParked /\ BuilderParked /\ FetcherParked

Init == PageInit /\ MergeParked /\ ServiceParked /\ RestParked
Next ==
    \/ setInputValue
    \/ handleSearch
    \/ handleSearchDone
    \/ handleNodeClick
    \/ detailsDone
    \/ handleExpandGraph
    \/ handleExpandGraphDone
    \/ handleLoadMore
    \/ handleLoadMoreDone
    \/ handleUpdateGraphFromTransactions
Spec == Init /\ [][Next]_vars

\* The page with searches for two addresses.
NextSearches ==
    \/ typeAddress
    \/ handleSearch
    \/ handleSearchDone
    \/ handleNodeClick
    \/ detailsDone
    \/ handleExpandGraph
    \/ handleExpandGraphDone
    \/ handleLoadMore
    \/ handleLoadMoreDone
    \/ handleUpdateGraphFromTransactions
SpecSearches == Init /\ [][NextSearches]_vars

InitMerge == MergeInit /\ ServiceParked /\ PageParked /\ RestParked
NextMerge == Merge \/ MergeAgain \/ MergeSwapped
SpecMerge == InitMerge /\ [][NextMerge]_vars

InitLog ==
    ServiceParked /\ LogParked /\ MergeParked /\ PageParked /\ BuilderParked /\ FetcherParked
NextLog == fetchAddressDetails \/ clearApiLog \/ getApiLog \/ callerChangesArray
SpecLog == InitLog /\ [][NextLog]_vars

\* The graph of the page, not stored yet, is merged with another graph, as
\* the existing or as the incoming one: the graph of the first page of B, the
\* graph of D, or a graph with a link between addresses it has no nodes for.
mergeWithOther ==
    /\ UNCHANGED <<mergeVars, svcVars, pageVars, logVars, fetcherVars>>
    /\ bpc = "built" /\ bAsExisting = EmptyGraph /\ bAsIncoming = EmptyGraph
    /\ \E other \in {GraphResponse(AddrB, 10, 0), GraphResponse(AddrD, 50, 0),
                      [nodes |-> <<>>,
                       links |-> <<[source |-> AddrE, target |-> AddrD, value |-> 5,
                                    txHash |-> "h8", timestamp |-> 900]>>]},
          asExisting \in BOOLEAN :
          /\ bOther' = other
          /\ bMerged' = IF asExisting THEN mergeGraphData(bGraph, other)
                        ELSE mergeGraphData(other, bGraph)
    /\ bpc' = "merged"
    /\ UNCHANGED <<bAddr, bTxs, bGraph, bAsExisting, bAsIncoming>>

InitBuilder ==
    /\ bpc = "drawn"
    /\ bAddr \in {AddrA, AddrB}
    /\ bTxs \in {<<>>} \cup {<<tx>> \o older : tx \in DrawnTxs, older \in OlderTxs}
    /\ bGraph = EmptyGraph /\ bAsExisting = EmptyGraph /\ bAsIncoming = EmptyGraph
    /\ bOther = EmptyGraph /\ bMerged = EmptyGraph
    /\ MergeParked /\ ServiceParked /\ PageParked /\ LogParked /\ FetcherParked
NextBuilder == buildGraph \/ storeAsExisting \/ storeAsIncoming \/ mergeWithOther
SpecBuilder == InitBuilder /\ [][NextBuilder]_vars

InitFetcher ==
    /\ fnow = 0 /\ fcfg \in Configs /\ fLock = 0 /\ fSent = <<>>
    /\ fcall = [c \in Callers |-> CallState("Idle", 0)]
    /\ MergeParked /\ ServiceParked /\ PageParked /\ LogParked /\ BuilderParked
NextFetcher ==
    \/ \E c \in Callers : call(c)
    \/ \E c \in Callers : enter(c)
    \/ \E c \in Callers : issue(c)
    \/ \E c \in Callers : respond(c)
    \/ \E c \in Callers : timeOut(c)
    \/ \E c \in Callers : retry(c)
    \/ tick
SpecFetcher == InitFetcher /\ [][NextFetcher]_vars

InitService == ServiceInit /\ MergeParked /\ PageParked /\ RestParked
NextService == getAddressDetails \/ getAddressGraph \/ fetchWithTimeout
SpecService == InitService /\ [][NextService]_vars

-----------------------------------------------------------------------------
(* Properties of mergeGraphData (SpecMerge)                                *)

MergeDone == mpc \in {"merged", "again", "swapped"}

\* Two graphs hold no two different records under one node id or one edge
\* key, neither between them nor inside one of them.
NoConflict(g, h) ==
    /\ \A n1, n2 \in Range(g.nodes \o h.nodes) : n1.id = n2.id => n1 = n2
    /\ \A l1, l2 \in Range(g.links \o h.links) : EdgeId(l1) = EdgeId(l2) => l1 = l2

\* C2: merging the same page a second time changes nothing:
\* merge(merge(A,B), B) = merge(A,B), nodes and links alike.
C2_MergeIdempotent ==
    mpc \in {"again", "swapped"} => mABB = mAB

C2_Witness ==
    /\ mpc = "again"
    /\ Len(mB.links) > 0 /\ Len(mB.nodes) > 0
    /\ Len(mA.links) > 0 /\ Len(mA.nodes) > 0
    /\ EdgeIds(mA) # EdgeIds(mB)

C4_FirstSeenNodeWins ==
    MergeDone =>
        \A n \in Range(mA.nodes) :
            /\ n \in Range(mAB.nodes)
            /\ \A r \in Range(mAB.nodes) : r.id = n.id => r = n

C4_Witness ==
    /\ mpc = "merged"
    /\ \E n \in Range(mA.nodes), r \in Range(mB.nodes) : n.id = r.id /\ n # r

\* C5: the result of a merge never holds two links with the same (source,
\* target, txHash), and every key of either input is kept, so two links that
\* differ only in txHash are both in the result.
C5_MergedEdgesUnique ==
    MergeDone =>
        /\ UniqueEdgeIds(mAB.links)
        /\ EdgeIds(mAB) = EdgeIds(mA) \cup EdgeIds(mB)

C5_Witness ==
    /\ mpc = "merged"
    /\ EdgeIds(mA) \cap EdgeIds(mB) # {}
    /\ \E l1 \in Range(mA.links), l2 \in Range(mB.links) :
          /\ l1.source = l2.source /\ l1.target = l2.target
          /\ l1.txHash # l2.txHash
    /\ ~UniqueEdgeIds(mB.links)

-----------------------------------------------------------------------------
(* Properties of the page (Spec)                                           *)

\* C1: after any sequence of searches, expansions and load-mores, graphData
\* never holds two links with the same (source, target, txHash).
C1_EdgeKeysUnique == UniqueEdgeIds(graphData.links)

\* C7: after any sequence of searches, expansions and load-mores, graphData
\* never holds two nodes with the same id.
C7_NodeIdsUnique == UniqueNodeIds(graphData.nodes)

\* An expansion brought a page whose centre was in the graph already, and a
\* load-more brought a page the search had brought before.
C7_Witness ==
    /\ expandCount > 0
    /\ AddrD \in NodeIds(graphData)
    /\ ~UniqueEdgeIds(graphData.links)

\* C8: between two searches a settling expansion or load-more removes
\* nothing: when no search is pending and the settling fetch began on a graph
\* that held the answer of the search, every node id and every edge key of
\* graphData is in graphData afterwards, in whatever order the pending
\* fetches settle.
C8_GraphOnlyGrows ==
    [][\A t \in BagToSet(tasks) :
          (/\ \A p \in BagToSet(tasks) : p.kind # "search"
           /\ t.kind \in {"expand", "update"}
           /\ NodeIds(GraphResponse(address, 50, 0)) \subseteq NodeIds(t.graph)
           /\ EdgeIds(GraphResponse(address, 50, 0)) \subseteq EdgeIds(t.graph)
           /\ tasks' = Settled(tasks, t)
           /\ handleExpandGraphDone \/ handleUpdateGraphFromTransactions)
          => /\ NodeIds(graphData) \subseteq NodeIds(graphData')
             /\ EdgeIds(graphData) \subseteq EdgeIds(graphData')]_vars

-----------------------------------------------------------------------------
(* Properties of BlockchainService (SpecService)                           *)

\* The address has the prefix bc1p in some letter case.
IsBc1p(addr) == StartsWithI(addr, <<"b", "c", "1", "p">>)

\* C9: a call with a bc1p address (in any letter case) that passes
\* isValidBitcoinAddress ends at once with the unsupported-variant error and
\* issues no fetch, in getAddressDetails and in getAddressGraph.
C9_TaprootNeverFetched ==
    [][(spc = "called" /\ isValidBitcoinAddress(sAddr) /\ IsBc1p(sAddr))
          => (spc' = "done" /\ sResult' = "taproot" /\ httpRequests' = httpRequests)]_vars

\* C10: a call with an address isValidBitcoinAddress rejects ends at once
\* with the validation error; it issues no HTTP request and leaves the API
\* log as it was.
C10_InvalidFailsLocally ==
    [][(spc = "called" /\ ~isValidBitcoinAddress(sAddr))
          => /\ spc' = "done" /\ sResult' = "invalid"
             /\ httpRequests' = httpRequests
             /\ apiLog' = apiLog]_vars

C10_Witness ==
    /\ spc = "done" /\ sCall = "graph"
    /\ ~isValidBitcoinAddress(sAddr)
    /\ Len(sAddr) >= 26 /\ Len(sAddr) <= 100
    /\ StartsWithI(sAddr, <<"b", "c", "1">>)
    /\ sResult = "invalid"
    /\ apiLog = <<EarlierEntry>>

\* C23: a string with the prefix bc1p, in any letter case, that the validator
\* accepts has exactly 58 characters after the prefix.
C23_TaprootLength ==
    [][(spc = "called" /\ sCall = "graph" /\ IsBc1p(sAddr) /\ sResult' # "invalid")
          => Len(sAddr) = 4 + 58]_vars

\* C24: the validator accepts a string that starts with 1 or 3 exactly when it
\* has 26 to 35 characters, all letters or digits other than 0, O, I and l; it
\* rejects a string that starts with neither 1, 3 nor bc1 (in any letter case).
C24_LegacyFormat ==
    [][(spc = "called" /\ sCall = "graph")
          => /\ (sAddr # <<>> /\ sAddr[1] \in {"1", "3"})
                  => ((sResult' # "invalid")
                        <=> /\ Len(sAddr) >= 26 /\ Len(sAddr) <= 35
                            /\ \A i \in 1..Len(sAddr) :
                                  sAddr[i] \in AlnumClassI \ {"0", "O", "I", "l"})
             /\ (/\ sAddr = <<>> \/ sAddr[1] \notin {"1", "3"}
                 /\ ~StartsWithI(sAddr, <<"b", "c", "1">>))
                  => sResult' = "invalid"]_vars

C24_Witness ==
    /\ spc = "fetching" /\ sCall = "graph"
    /\ sAddr = MkAddress(<<"3">>, "Q", 34, <<>>)

C14_FailureNotRetried ==
    [][/\ (spc = "fetching" /\ Head(apiLog').kind \in {"error", "timeout"})
          => /\ spc' = "done" /\ sResult' = "failed"
             /\ httpRequests = 1 /\ httpRequests' = 1
       /\ spc = "done" => UNCHANGED <<spc, sResult, httpRequests>>]_vars

C14_Witness ==
    /\ spc = "done" /\ sCall = "details" /\ httpRequests = 1
    /\ Head(apiLog).kind = "timeout"
    /\ sResult = "failed"

\* C15: every call that reaches fetch() puts exactly one entry into the API
\* log, in front of the entries that were there, whatever the fetch ends in;
\* no other step of a call touches the log.
C15_OneEntryPerCall ==
    [][/\ spc = "fetching"
          => /\ Len(apiLog') = Len(apiLog) + 1
             /\ Tail(apiLog') = apiLog
             /\ Head(apiLog').url = Url(sCall, sAddr, 50, 0)
       /\ spc # "fetching" => apiLog' = apiLog]_vars

C15_Witness ==
    /\ spc = "done" /\ sCall = "graph" /\ httpRequests = 1
    /\ Len(apiLog) = 2
    /\ Head(apiLog).kind = "error"

-----------------------------------------------------------------------------
(* Properties of the API log (SpecLog)                                     *)

\* C16: after any sequence of logged calls and clears the API log holds at
\* most MAX_LOG_ENTRIES (100) entries.
C16_LogWithinCapacity == Len(apiLog) <= MAX_LOG_ENTRIES

C16_Witness ==
    /\ Len(inserted) = MAX_LOG_ENTRIES + 1
    /\ Len(apiLog) = MAX_LOG_ENTRIES

\* C17: after n logged calls since the last clear the log holds min(n, 100)
\* entries: the most recent ones, the newest at index 0 and each next one older.
C17_NewestFirst ==
    LET n == Len(inserted)
        k == Min(n, MAX_LOG_ENTRIES)
    IN  /\ Len(apiLog) = k
        /\ \A i \in 1..k : apiLog[i] = inserted[n - i + 1]

C17_Witness ==
    /\ Len(inserted) = 105
    /\ Len(apiLog) = 100
    /\ apiLog[1] = CallEntry(104)
    /\ apiLog[100] = CallEntry(5)

\* C18: the array getApiLog returns holds the entries of the log at that
\* moment; later logged calls and clears leave it as it is, and what the caller
\* does to it leaves the stored log as it is.
C18_SnapshotIndependent ==
    [][/\ getApiLog => SnapView' = apiLog
       /\ (snapIs # "none" /\ (fetchAddressDetails \/ clearApiLog)) => SnapView' = SnapView
       /\ callerChangesArray => apiLog' = apiLog]_vars

C18_Witness ==
    /\ snapIs = "copy"
    /\ Len(snapshot) = 3 /\ Head(snapshot) = CallerEntry
    /\ Len(apiLog) = 1

-----------------------------------------------------------------------------
(* Properties of the graph builder (SpecBuilder)                           *)

\* C19: every edge the builder produces connects the centre address to a
\* different address: one end is the centre and source and target differ.
C19_NoSelfEdges ==
    bpc = "built" =>
        \A i \in 1..Len(bGraph.links) :
            /\ bGraph.links[i].source # bGraph.links[i].target
            /\ bAddr \in {bGraph.links[i].source, bGraph.links[i].target}

\* The first link of the sequence with the edge identity of link.
FirstWithId(links, link) ==
    links[CHOOSE i \in 1..Len(links) :
             /\ EdgeId(links[i]) = EdgeId(link)
             /\ \A j \in 1..(i - 1) : EdgeId(links[j]) # EdgeId(link)]

\* The stored graph holds one edge for each edge identity of the page, with
\* the value of the first leg the builder met.
FirstLegStored(stored, page) ==
    \A i \in 1..Len(page.links) :
        LET same == {j \in 1..Len(stored.links) :
                        EdgeId(stored.links[j]) = EdgeId(page.links[i])}
        IN  /\ Cardinality(same) = 1
            /\ \A j \in same :
                  stored.links[j].value = FirstWithId(page.links, page.links[i]).value

\* C20: legs of one transaction with the same (source, target, txHash) are
\* one edge of the stored graph, with the value of the first leg, whether the
\* builder's graph was merged as the existing or as the incoming graph.
C20_FirstLegWins ==
    /\ bAsExisting # EmptyGraph => FirstLegStored(bAsExisting, bGraph)
    /\ bAsIncoming # EmptyGraph => FirstLegStored(bAsIncoming, bGraph)

-----------------------------------------------------------------------------
(* Properties of the rate-governed fetcher (SpecFetcher)                   *)

\* C11: every two successive outbound requests are at least minDelay apart,
\* and no window of 60 seconds holds more than maxRequestsPerWindow of them.
C11_Paced ==
    /\ \A i \in 2..Len(fSent) : fSent[i].time >= fSent[i - 1].time + fcfg.minDelay
    /\ \A i \in 1..Len(fSent) :
          Cardinality({j \in 1..Len(fSent) :
                          /\ fSent[j].time >= fSent[i].time
                          /\ fSent[j].time < fSent[i].time + WindowTicks})
            <= fcfg.maxPerWindow

\* C12: an answer 429 to the first attempt suspends the call, and the retry
\* goes out no sooner than Retry-After (the fallback when the header is
\* missing) after it, with the request of the first attempt; an answer 429 to
\* the retry ends the call as Throttled; no call issues a third request.
C12_RetryOnce ==
    [][\A c \in Callers :
          /\ (fcall[c].pc = "InFlight" /\ fcall'[c].pc # "InFlight" /\ fcall'[c].status = 429)
                => fcall'[c].pc = IF fcall[c].attempts = 1 THEN "RetryWait" ELSE "Throttled"
          /\ (fcall[c].pc = "RetryWait" /\ fcall'[c].pc # "RetryWait")
                => /\ fcall'[c].pc = "InFlight" /\ fcall'[c].attempts = 2
                   /\ fnow >= fcall[c].throttledAt
                                + (IF fcall[c].retryAfter = 0 THEN fcfg.retryAfterFallback
                                   ELSE fcall[c].retryAfter)
                   /\ Len(fSent') = Len(fSent) + 1
                   /\ \E i \in 1..Len(fSent) :
                         /\ fSent[i].caller = c
                         /\ fSent[i].time = fcall[c].issued
                         /\ fSent[i].req = fSent'[Len(fSent')].req
          /\ (fcall[c].pc # "InFlight" /\ fcall'[c].pc = "InFlight")
                => fcall[c].pc \in {"Waiting", "RetryWait"} /\ fcall'[c].attempts <= 2
          /\ (fcall[c].pc = "Throttled" /\ fcall'[c] # fcall[c])
                => fcall'[c].pc = "Queued"]_vars

C12_Witness ==
    \E c \in Callers :
        /\ fcall[c].pc = "Throttled"
        /\ \E i, j \in 1..Len(fSent) :
              /\ i < j /\ fSent[i].caller = c /\ fSent[j].caller = c
              /\ fSent[i].req = fSent[j].req
              /\ fSent[j].time >= fSent[i].time + fcfg.retryAfterFallback

C21_CentreNode ==
    bpc = "built" =>
        Cardinality({i \in 1..Len(bGraph.nodes) : bGraph.nodes[i].id = bAddr}) = 1

C21_Witness ==
    /\ bpc = "built" /\ bTxs = <<>>
    /\ bGraph = [nodes |-> <<[id |-> bAddr, label |-> LabelOfString(bAddr)]>>,
                 links |-> <<>>]

C30_EndpointsAreNodes ==
    LET Closed(g) ==
            \A i \in 1..Len(g.links) :
                {g.links[i].source, g.links[i].target} \subseteq NodeIds(g)
    IN  /\ bpc \in {"built", "merged"} => Closed(bGraph)
        /\ (bpc = "merged" /\ Closed(bGraph) /\ Closed(bOther)) => Closed(bMerged)

C30_Witness ==
    /\ bpc = "merged"
    /\ bOther = GraphResponse(AddrD, 50, 0)
    /\ bGraph.links # <<>>
    /\ Len(bMerged.links) = Len(bGraph.links) + 1
    /\ Len(bMerged.nodes) = Len(bGraph.nodes) + 1

\* C28: an expand-graph fetch that fails, and a load-more whose details fetch
\* or graph fetch fails, leave graphData and expandCount as they were (the
\* failure shows as the error they set; the graph fetch of a load-more fails
\* silently and changes graphData only by merging the fetched page); a search
\* that fails leaves the empty graph.
C28_FailureFrames ==
    [][/\ (handleExpandGraphDone /\ error' # error)
            => (graphData' = graphData /\ expandCount' = expandCount)
       /\ (handleLoadMoreDone /\ panel'.error # panel.error)
            => (graphData' = graphData /\ expandCount' = expandCount
                /\ nfetch' = nfetch)
       /\ handleUpdateGraphFromTransactions
            => /\ expandCount' = expandCount
               /\ \/ graphData' = graphData
                  \/ \E t \in BagToSet(tasks) :
                        /\ t.kind = "update"
                        /\ graphData' = updatedGraphData(t.graph,
                                            GraphResponse(t.addr, 10, t.offset))
       /\ (handleSearchDone /\ error' # error) => graphData' = EmptyGraph]_vars

C28_Witness ==
    /\ error = "failed" /\ graphData # EmptyGraph /\ expandCount = 1
    /\ ~expandLoading /\ ~loading /\ tasks = EmptyBag

\* C27: expandCount stays within 0..3, the expansion that raises it to k has
\* fetched 10 transactions at offset 50 + 10 * (k - 1), and a request at
\* count 3 starts no fetch.
C27_ExpansionOffsets ==
    [][/\ expandCount' \in 0..3
       /\ (handleExpandGraphDone /\ expandCount' = expandCount + 1)
            => \E t \in BagToSet(tasks) :
                  /\ t.kind = "expand" /\ tasks' = Settled(tasks, t)
                  /\ t.offset = 50 + 10 * (expandCount' - 1)
       /\ (handleExpandGraph /\ expandCount = 3)
            => (tasks' = tasks /\ nfetch' = nfetch)]_vars

\* C29: when no details fetch is pending, the address details the panel
\* holds are those of the selected node.
C29_DetailsOfSelected ==
    (/\ \A t \in BagToSet(tasks) : t.kind \notin {"details", "loadmore"}
     /\ selectedNode # NoNode
     /\ panel.addressData # NoData)
    => panel.addressData.address = selectedNode.id

\* C26: once the search for the current address has answered and no search
\* is pending, a graph fetch of an expansion or of a load-more that was
\* started for another address (the expansion's address, or the centre of
\* the graph its closure holds, is not the current address) adds no node and
\* no edge to graphData when it settles.
C26_NoStaleGraph ==
    [][\A t \in BagToSet(tasks) :
          (/\ t.kind \in {"expand", "update"}
           /\ tasks' = Settled(tasks, t)
           /\ ~loading /\ \A u \in BagToSet(tasks) : u.kind # "search"
           /\ IF t.kind = "expand" THEN t.addr # address
              ELSE t.graph # EmptyGraph /\ t.graph.nodes[1].id # address)
          => /\ NodeIds(graphData') \subseteq NodeIds(graphData)
             /\ Range(graphData'.links) \subseteq Range(graphData.links)]_vars

====
